---- MODULE Spec2Model ----
(***************************************************************************)
(* A model of the Northwind ETL scripts: the transformation module         *)
(* (scripts/transformer.py) and the pipeline orchestrator (scripts/elt.py).*)
(*                                                                         *)
(* Text is a sequence of characters (one-character strings, or a chunk of  *)
(* letters that holds no blank and no underscore).  A cell of a CSV file   *)
(* is text; the empty cell is what pandas reads as NaN.  A DataFrame is a  *)
(* record [cols, rows]: the set of its column names and the sequence of    *)
(* its rows, each row a function from the column names to cells.           *)
(***************************************************************************)
EXTENDS Integers, Sequences, FiniteSets, TLC

VARIABLES
    raw,           \* RAW_DIR: table name -> its source files, in glob order
    schedule,      \* the processes started one after the other: script and hash seed
    faults,        \* the staging files the disk refuses to write
    run,           \* index in schedule of the running process
    pc,            \* position of the running process
    nload,         \* load_source_data calls made by execute_transformation
    frames,        \* the tables loaded by execute_transformation, by variable name
    dim_date,      \* execute_transformation's dim_date
    dim_client,    \* execute_transformation's dim_client
    dim_employee,  \* execute_transformation's dim_employee
    fact_sales,    \* execute_transformation's fact_sales
    nsaved,        \* to_csv calls made by execute_transformation
    staging,       \* STAGING_DIR: file name -> the table written to it
    warehouse,     \* WAREHOUSE_DIR: table name -> the table stored
    validation,    \* result printed by execute_warehouse_validation
    done_runs,     \* what the earlier processes of the schedule built
    log            \* phases started by the running process, in order

vars == <<raw, schedule, faults, run, pc, nload, frames, dim_date, dim_client,
          dim_employee, fact_sales, nsaved, staging, warehouse, validation,
          done_runs, log>>

-----------------------------------------------------------------------------
(* Text *)

NaN == <<>>

lower_char(c) ==
    CASE c = "A" -> "a"
      [] c = "B" -> "b"
      [] c = "ID" -> "id"
      [] c = "Customer" -> "customer"
      [] c = "Company" -> "company"
      [] c = "Name" -> "name"
      [] c = "Order" -> "order"
      [] c = "Product" -> "product"
      [] c = "Code" -> "code"
      [] c = "Employee" -> "employee"
      [] c = "Territory" -> "territory"
      [] c = "Region" -> "region"
      [] c = "Description" -> "description"
      [] c = "Date" -> "date"
      [] c = "Shipped" -> "shipped"
      [] c = "Unit" -> "unit"
      [] c = "Price" -> "price"
      [] c = "Quantity" -> "quantity"
      [] c = "Discount" -> "discount"
      [] c = "First" -> "first"
      [] c = "Last" -> "last"
      [] OTHER -> c

upper_char(c) ==
    CASE c = "a" -> "A"
      [] c = "b" -> "B"
      [] c = "nan" -> "NAN"
      [] OTHER -> c

str_lower(s) == [i \in 1..Len(s) |-> lower_char(s[i])]

str_upper(s) == [i \in 1..Len(s) |-> upper_char(s[i])]

RECURSIVE lstrip(_)
lstrip(s) == IF s # <<>> /\ s[1] = " " THEN lstrip(Tail(s)) ELSE s

RECURSIVE rstrip(_)
rstrip(s) ==
    IF s # <<>> /\ s[Len(s)] = " " THEN rstrip(SubSeq(s, 1, Len(s) - 1)) ELSE s

str_strip(s) == rstrip(lstrip(s))

str_replace(s, old) == SelectSeq(s, LAMBDA c : c # old)

RECURSIVE str_join(_)
str_join(s) == IF s = <<>> THEN "" ELSE s[1] \o str_join(Tail(s))

\* astype(str) of a cell: NaN prints as "nan"
astype_str(cell) == IF cell = NaN THEN <<"nan">> ELSE cell

-----------------------------------------------------------------------------
(* DataFrames *)

EmptyDataFrame == [cols |-> {}, rows |-> <<>>]

empty(df) == df.rows = <<>> \/ df.cols = {}

Range(s) == {s[i] : i \in 1..Len(s)}

standardize_column_name(col) ==
    str_join(str_replace(str_replace(str_strip(str_lower(col)), " "), "_"))

\* pd.read_csv followed by standardize_column_names.  The headers drawn in the
\* initial states normalise to pairwise distinct names.
standardize_column_names(file) ==
    LET names == [i \in 1..Len(file.header) |-> standardize_column_name(file.header[i])]
        at(c) == CHOOSE i \in 1..Len(names) : names[i] = c
    IN  [cols |-> Range(names),
         rows |-> [r \in 1..Len(file.rows) |->
                     [c \in Range(names) |-> file.rows[r][at(c)]]]]

RECURSIVE read_all(_)
read_all(source_files) ==
    IF source_files = <<>> THEN <<>>
    ELSE LET f == source_files[1]
         IN  IF f.readable
             THEN <<standardize_column_names(f)>> \o read_all(Tail(source_files))
             ELSE read_all(Tail(source_files))

reindex(row, have, cols) == [c \in cols |-> IF c \in have THEN row[c] ELSE NaN]

RECURSIVE concat_rows(_, _)
concat_rows(dataframes, cols) ==
    IF dataframes = <<>> THEN <<>>
    ELSE LET df == dataframes[1]
         IN  [i \in 1..Len(df.rows) |-> reindex(df.rows[i], df.cols, cols)]
             \o concat_rows(Tail(dataframes), cols)

concat(dataframes) ==
    LET cols == UNION {dataframes[i].cols : i \in 1..Len(dataframes)}
    IN  [cols |-> cols, rows |-> concat_rows(dataframes, cols)]

key_of(row, subset) == [k \in subset |-> row[k]]

RECURSIVE keep_first(_, _, _)
keep_first(rows, subset, seen) ==
    IF rows = <<>> THEN <<>>
    ELSE LET k == key_of(rows[1], subset)
         IN  IF k \in seen
             THEN keep_first(Tail(rows), subset, seen)
             ELSE <<rows[1]>> \o keep_first(Tail(rows), subset, seen \cup {k})

RECURSIVE keep_last(_, _)
keep_last(rows, subset) ==
    IF rows = <<>> THEN <<>>
    ELSE LET k == key_of(rows[1], subset)
             later == \E j \in 2..Len(rows) : key_of(rows[j], subset) = k
         IN  IF later THEN keep_last(Tail(rows), subset)
             ELSE <<rows[1]>> \o keep_last(Tail(rows), subset)

drop_duplicates_last(df, subset) ==
    [cols |-> df.cols, rows |-> keep_last(df.rows, subset)]

\* DataFrame.drop_duplicates(subset=..., keep='first')
drop_duplicates(df, subset) ==
    [cols |-> df.cols, rows |-> keep_first(df.rows, subset, {})]

load_source_data(source_files, primary_key_cols) ==
    LET dataframes == read_all(source_files)
        combined_df == concat(dataframes)
        clean_primary_keys == {str_join(str_lower(key)) : key \in primary_key_cols}
    IN  IF dataframes = <<>> THEN EmptyDataFrame
        ELSE IF clean_primary_keys \subseteq combined_df.cols
             THEN drop_duplicates(combined_df, clean_primary_keys)
             ELSE combined_df

-----------------------------------------------------------------------------
(* DataFrame operations used by the builders *)

\* df.rename(columns=mapping): mapping is a function old name -> new name
rename(df, mapping) ==
    LET new(c) == IF c \in DOMAIN mapping THEN mapping[c] ELSE c
        old(n) == CHOOSE c \in df.cols : new(c) = n
        cols == {new(c) : c \in df.cols}
    IN  [cols |-> cols,
         rows |-> [i \in 1..Len(df.rows) |-> [n \in cols |-> df.rows[i][old(n)]]]]

\* df[col] = value(row, position)
assign(df, col, value(_, _)) ==
    [cols |-> df.cols \cup {col},
     rows |-> [i \in 1..Len(df.rows) |->
                 [c \in df.cols \cup {col} |->
                    IF c = col THEN value(df.rows[i], i) ELSE df.rows[i][c]]]]

\* df[[c for c in target_columns if c in df.columns]]
select(df, target_columns) ==
    LET cols == df.cols \cap target_columns
    IN  [cols |-> cols,
         rows |-> [i \in 1..Len(df.rows) |-> [c \in cols |-> df.rows[i][c]]]]

\* df.drop(columns=..., errors='ignore')
drop(df, columns) == select(df, df.cols \ columns)

\* pd.merge(left, right, left_on=..., right_on=..., how=...), one key column a
\* side, suffixes ('_x', '_y').  The rows follow the order of the left rows,
\* each with its matching right rows in the right's order; NaN keys match NaN.
RECURSIVE flatten(_)
flatten(pieces) ==
    IF pieces = <<>> THEN <<>> ELSE pieces[1] \o flatten(Tail(pieces))

merge(left, right, left_on, right_on, how) ==
    LET common == (left.cols \cap right.cols)
                  \ (IF left_on = right_on THEN {left_on} ELSE {})
        rcols == IF left_on = right_on THEN right.cols \ {right_on} ELSE right.cols
        lname(c) == IF c \in common THEN c \o "_x" ELSE c
        rname(c) == IF c \in common THEN c \o "_y" ELSE c
        lnames == {lname(c) : c \in left.cols}
        cols == lnames \cup {rname(c) : c \in rcols}
        lcol(n) == CHOOSE c \in left.cols : lname(c) = n
        rcol(n) == CHOOSE c \in rcols : rname(c) = n
        joined(l, r) == [n \in cols |-> IF n \in lnames THEN l[lcol(n)] ELSE r[rcol(n)]]
        lonely(l) == [n \in cols |-> IF n \in lnames THEN l[lcol(n)] ELSE NaN]
        piece(l) ==
            LET matches == SelectSeq(right.rows, LAMBDA r : l[left_on] = r[right_on])
            IN  IF matches # <<>>
                THEN [j \in 1..Len(matches) |-> joined(l, matches[j])]
                ELSE IF how = "left" THEN <<lonely(l)>> ELSE <<>>
    IN  [cols |-> cols,
         rows |-> flatten([i \in 1..Len(left.rows) |-> piece(left.rows[i])])]

\* the key of merge raises KeyError when a side lacks its key column
merge_raises(left, right, left_on, right_on) ==
    left_on \notin left.cols \/ right_on \notin right.cols

\* ', '.join(texts)
RECURSIVE join_texts(_)
join_texts(texts) ==
    IF texts = <<>> THEN <<>>
    ELSE IF Len(texts) = 1 THEN texts[1]
    ELSE texts[1] \o <<",", " ">> \o join_texts(Tail(texts))

\* Iteration order of set(x) under the process's string-hash seed: the seed
\* ranks the texts; texts it does not rank follow in a fixed order.
RECURSIVE arbitrary_order(_)
arbitrary_order(S) ==
    IF S = {} THEN <<>>
    ELSE LET x == CHOOSE y \in S : TRUE IN <<x>> \o arbitrary_order(S \ {x})

set_iteration(S, seed) ==
    SelectSeq(seed, LAMBDA t : t \in S) \o arbitrary_order(S \ Range(seed))

RECURSIVE unique(_, _)
unique(values, seen) ==
    IF values = <<>> THEN <<>>
    ELSE IF values[1] \in seen THEN unique(Tail(values), seen)
    ELSE <<values[1]>> \o unique(Tail(values), seen \cup {values[1]})

column(df, c) == [i \in 1..Len(df.rows) |-> df.rows[i][c]]

dropna(values) == SelectSeq(values, LAMBDA v : v # NaN)

\* df.groupby(by)[col].apply(agg).reset_index(name=name): NaN keys are dropped.
\* The groups are listed by first appearance; pandas lists them by sorted key,
\* a difference no caller observes (both callers left-merge on the unique key).
groupby_apply(df, by, col, agg(_), name) ==
    LET keys == unique(dropna(column(df, by)), {})
        group(k) == column([cols |-> df.cols,
                            rows |-> SelectSeq(df.rows, LAMBDA r : r[by] = k)], col)
    IN  [cols |-> {by, name},
         rows |-> [i \in 1..Len(keys) |->
                     [c \in {by, name} |-> IF c = by THEN keys[i] ELSE agg(group(keys[i]))]]]

\* Series.fillna(value) on column col
fillna(df, col, value) ==
    assign(df, col, LAMBDA r, i : IF r[col] = NaN THEN value ELSE r[col])

-----------------------------------------------------------------------------
(* Dates *)

NaT == <<>>

Years == {"2013", "2014"}
Months == {"07", "12"}
Days == {"04", "05"}
Times == {"10:00", "15:30"}

number_of(token) ==
    CASE token = "2013" -> 2013
      [] token = "2014" -> 2014
      [] token = "07" -> 7
      [] token = "12" -> 12
      [] token = "04" -> 4
      [] token = "05" -> 5
      [] token = "10:00" -> 600
      [] token = "15:30" -> 930

\* pd.to_datetime(text, format='mixed', errors='coerce') of one value: a
\* Timestamp <<year, month, day, minute of the day>>, or NaT.  The formats
\* read are YYYY-MM-DD, YYYY-MM-DD HH:MM and MM/DD/YYYY.
to_datetime(text) ==
    LET n == Len(text)
        iso == /\ n \in {5, 7}
               /\ text[1] \in Years /\ text[2] = "-" /\ text[3] \in Months
               /\ text[4] = "-" /\ text[5] \in Days
               /\ n = 7 => (text[6] = " " /\ text[7] \in Times)
        us ==  /\ n = 5
               /\ text[1] \in Months /\ text[2] = "/" /\ text[3] \in Days
               /\ text[4] = "/" /\ text[5] \in Years
    IN  IF iso
        THEN <<number_of(text[1]), number_of(text[3]), number_of(text[5]),
               IF n = 7 THEN number_of(text[7]) ELSE 0>>
        ELSE IF us
        THEN <<number_of(text[5]), number_of(text[1]), number_of(text[3]), 0>>
        ELSE NaT

timestamp_lt(a, b) ==
    \E i \in 1..4 : a[i] < b[i] /\ \A j \in 1..(i - 1) : a[j] = b[j]

RECURSIVE insert_sorted(_, _)
insert_sorted(sorted, t) ==
    IF sorted = <<>> THEN <<t>>
    ELSE IF timestamp_lt(t, sorted[1]) THEN <<t>> \o sorted
    ELSE <<sorted[1]>> \o insert_sorted(Tail(sorted), t)

RECURSIVE sort_values(_)
sort_values(timestamps) ==
    IF timestamps = <<>> THEN <<>>
    ELSE insert_sorted(sort_values(SubSeq(timestamps, 1, Len(timestamps) - 1)),
                       timestamps[Len(timestamps)])

strftime_Ydm(t) == t[1] * 10000 + t[3] * 100 + t[2]

\* int(t.strftime('%Y%m%d'))
strftime_Ymd(t) == t[1] * 10000 + t[2] * 100 + t[3]

month_name(m) ==
    <<"January", "February", "March", "April", "May", "June", "July", "August",
      "September", "October", "November", "December">>[m]

quarter(m) == ((m - 1) \div 3) + 1

\* the calendar day of a Timestamp
normalize(t) == <<t[1], t[2], t[3], 0>>

-----------------------------------------------------------------------------
(* create_date_dimension *)

\* orders_df['orderdate'] = orders_df['orderdate'].astype(str): done in place,
\* so the caller's Orders table changes too
orderdate_astype_str(orders_df) ==
    assign(orders_df, "orderdate", LAMBDA r, i : astype_str(r["orderdate"]))

create_date_dimension_raises(orders_df) ==
    ~empty(orders_df) /\ "orderdate" \notin orders_df.cols

distinct_timestamps(values) == unique(values, {})

create_date_dimension(orders_df) ==
    IF empty(orders_df) THEN EmptyDataFrame
    ELSE LET texts == column(orderdate_astype_str(orders_df), "orderdate")
             parsed == [i \in 1..Len(texts) |-> to_datetime(texts[i])]
             dates == sort_values(distinct_timestamps(dropna(parsed)))
         IN  [cols |-> {"full_date", "sk_date", "year", "month", "month_name", "quarter"},
              rows |-> [i \in 1..Len(dates) |->
                 [full_date |-> dates[i],
                  sk_date |-> <<strftime_Ymd(dates[i])>>,
                  year |-> <<dates[i][1]>>,
                  month |-> <<dates[i][2]>>,
                  month_name |-> <<month_name(dates[i][2])>>,
                  quarter |-> <<quarter(dates[i][2])>>]]]

-----------------------------------------------------------------------------
(* create_client_dimension *)

Unknown == <<"Unknown">>

\* for col in columns: if col not in df.columns: df[col] = value
add_missing(df, columns, value) ==
    [cols |-> df.cols \cup columns,
     rows |-> [i \in 1..Len(df.rows) |->
                 [c \in df.cols \cup columns |->
                    IF c \in df.cols THEN df.rows[i][c] ELSE value]]]

create_client_dimension_raises(customers_df) ==
    ~empty(customers_df) /\ "customerid" \notin customers_df.cols

clean_customer_id(cell) == str_strip(str_upper(astype_str(cell)))

surrogate_keys_from_zero(df, col) == assign(df, col, LAMBDA r, i : <<i - 1>>)

\* df[col] = range(1, len(df) + 1)
surrogate_keys(df, col) == assign(df, col, LAMBDA r, i : <<i>>)

create_client_dimension(customers_df) ==
    IF empty(customers_df) THEN EmptyDataFrame
    ELSE LET renamed == rename(customers_df,
                            [c \in {"customerid", "companyname"} |->
                               IF c = "customerid" THEN "bk_customer_id"
                               ELSE "company_name"])
             cleaned == assign(renamed, "bk_customer_id",
                               LAMBDA r, i : clean_customer_id(r["bk_customer_id"]))
             geo == add_missing(cleaned, {"city", "country", "region"}, Unknown)
             keyed == surrogate_keys(geo, "sk_client")
         IN  select(keyed, {"sk_client", "bk_customer_id", "company_name",
                            "city", "country", "region"})

-----------------------------------------------------------------------------
(* add_territory_info and create_employee_dimension *)

NoTerritory == <<"No", " ", "Territory">>
NoRegion == <<"No", " ", "Region">>

\* the two early "Unknown" columns of add_territory_info
no_enrichment(emp_terr_df, territories_df) ==
    empty(emp_terr_df) \/ empty(territories_df)

\* whether the region table is joined (else every region description is 'Unknown')
joins_regions(merged, regions_df) ==
    ~empty(regions_df) /\ "regionid" \in merged.cols

territory_merge(emp_terr_df, territories_df, regions_df) ==
    LET merged == merge(emp_terr_df, territories_df, "territoryid", "territoryid", "left")
        regioned == IF joins_regions(merged, regions_df)
                    THEN merge(merged, regions_df, "regionid", "regionid", "left")
                    ELSE assign(merged, "regiondescription", LAMBDA r, i : Unknown)
        clean(df, col) ==
            IF col \in df.cols
            THEN assign(df, col, LAMBDA r, i : str_strip(astype_str(r[col])))
            ELSE df
    IN  clean(clean(regioned, "territorydescription"), "regiondescription")

add_territory_info_raises(employee_dim, emp_terr_df, territories_df, regions_df) ==
    /\ ~no_enrichment(emp_terr_df, territories_df)
    /\ \/ merge_raises(emp_terr_df, territories_df, "territoryid", "territoryid")
       \/ LET merged == merge(emp_terr_df, territories_df,
                              "territoryid", "territoryid", "left")
          IN  \/ /\ joins_regions(merged, regions_df)
                 /\ "regionid" \notin regions_df.cols
              \/ LET full == territory_merge(emp_terr_df, territories_df, regions_df)
                 IN  \/ "employeeid" \notin full.cols
                     \/ "territorydescription" \notin full.cols
                     \/ "regiondescription" \notin full.cols
                     \/ "bk_employee_id" \notin employee_dim.cols

\* the order in which ', '.join(set(x)) meets the region names
region_order(S, seed) == set_iteration(S, seed)

fill_unknown(df, col, value) == fillna(df, col, Unknown)

\* employee_dim[col] = employee_dim[col].fillna(value) after the two merges
fill_missing(df, col, value) == fillna(df, col, value)

add_territory_info(employee_dim, emp_terr_df, territories_df, regions_df, seed) ==
    IF no_enrichment(emp_terr_df, territories_df)
    THEN assign(assign(employee_dim, "territories", LAMBDA r, i : Unknown),
                "sales_region", LAMBDA r, i : Unknown)
    ELSE LET merged == territory_merge(emp_terr_df, territories_df, regions_df)
             territories_per_employee ==
                 groupby_apply(merged, "employeeid", "territorydescription",
                               LAMBDA x : join_texts(x), "territories")
             regions_per_employee ==
                 groupby_apply(merged, "employeeid", "regiondescription",
                               LAMBDA x : join_texts(region_order(Range(x), seed)),
                               "sales_region")
             with_territories == merge(employee_dim, territories_per_employee,
                                       "bk_employee_id", "employeeid", "left")
             with_regions == merge(with_territories, regions_per_employee,
                                   "bk_employee_id", "employeeid", "left")
             filled == fill_missing(fill_missing(with_regions, "territories", NoTerritory),
                                    "sales_region", NoRegion)
         IN  drop(filled, {"employeeid_x", "employeeid_y"})

create_employee_dimension_raises(employees_df, emp_terr_df, territories_df, regions_df) ==
    /\ ~empty(employees_df)
    /\ \/ "firstname" \notin employees_df.cols
       \/ "lastname" \notin employees_df.cols
       \/ add_territory_info_raises(
              rename(employees_df, [c \in {"employeeid"} |-> "bk_employee_id"]),
              emp_terr_df, territories_df, regions_df)

create_employee_dimension(employees_df, emp_terr_df, territories_df, regions_df, seed) ==
    IF empty(employees_df) THEN EmptyDataFrame
    ELSE LET renamed == rename(employees_df,
                            [c \in {"employeeid", "firstname", "lastname"} |->
                               CASE c = "employeeid" -> "bk_employee_id"
                                 [] c = "firstname" -> "first_name"
                                 [] c = "lastname" -> "last_name"])
             named == assign(renamed, "Employee_name",
                             LAMBDA r, i : astype_str(r["first_name"]) \o <<" ">>
                                           \o astype_str(r["last_name"]))
             keyed == surrogate_keys(named, "sk_employee")
             enriched == add_territory_info(keyed, emp_terr_df, territories_df,
                                            regions_df, seed)
         IN  select(enriched, {"sk_employee", "bk_employee_id", "Employee_name", "title",
                               "city", "country", "sales_region", "territories"})

-----------------------------------------------------------------------------
(* create_sales_fact *)

SentinelDate == 19000101

\* the value of a numeric cell, in hundredths
hundredths(cell) ==
    CASE cell = <<"0">> -> 0
      [] cell = <<"0.1">> -> 10
      [] cell = <<"1">> -> 100
      [] cell = <<"2">> -> 200
      [] cell = <<"5">> -> 500
      [] cell = <<"10">> -> 1000

\* (price * quantity) * (1 - discount), in hundredths; NaN when an operand is
total_amount(price, quantity, discount) ==
    IF NaN \in {price, quantity, discount} THEN NaN
    ELSE <<(hundredths(price) * hundredths(quantity) * (100 - hundredths(discount)))
           \div 10000>>

delivery_status(shipped) ==
    IF shipped # NaN /\ str_strip(shipped) # <<>>
    THEN <<"Delivered">> ELSE <<"Not", " ", "Delivered">>

\* the order-line/order-header join the fact table starts from
sales_join(orders_df, details_df) ==
    merge(details_df, orders_df, "orderid", "orderid", "inner")

\* the header's price first
price_column_header_first(cols) ==
    IF "unitprice_y" \in cols THEN "unitprice_y"
    ELSE IF "unitprice" \in cols THEN "unitprice"
    ELSE ""

\* the price column chosen after the join, or "" when there is none
price_column(cols) ==
    IF "unitprice_x" \in cols THEN "unitprice_x"
    ELSE IF "unitprice" \in cols THEN "unitprice"
    ELSE ""

inner_how == "inner"

\* how='left' of the two dimension lookups
lookup_how == "left"

link_dimension(sales_fact, dim, left_on, right_on, sk) ==
    IF ~empty(dim)
    THEN merge(sales_fact, select(dim, {right_on, sk}), left_on, right_on, lookup_how)
    ELSE sales_fact

\* the key formatted day first, unlike the date dimension's
date_key_day_first(text) ==
    LET dt == to_datetime(text)
    IN  IF dt = NaT THEN <<SentinelDate>> ELSE <<strftime_Ydm(dt)>>

\* dt.strftime('%Y%m%d').fillna(19000101).astype(int) of one order date
date_key(text) ==
    LET dt == to_datetime(text)
    IN  IF dt = NaT THEN <<SentinelDate>> ELSE <<strftime_Ymd(dt)>>

create_sales_fact_raises(orders_df, details_df, client_dim, employee_dim) ==
    /\ ~(empty(orders_df) \/ empty(details_df))
    /\ \/ merge_raises(details_df, orders_df, "orderid", "orderid")
       \/ LET joined == sales_join(orders_df, details_df)
          IN  /\ price_column(joined.cols) # ""
              /\ \/ {"quantity", "discount", "shippeddate", "orderdate"}
                       \ joined.cols # {}
                 \/ ~empty(client_dim) /\ "customerid" \notin joined.cols
                 \/ ~empty(employee_dim) /\ "employeeid" \notin joined.cols

create_sales_fact(orders_df, details_df, client_dim, employee_dim) ==
    IF empty(orders_df) \/ empty(details_df) THEN EmptyDataFrame
    ELSE LET joined == sales_join(orders_df, details_df)
             price == price_column(joined.cols)
             amounts == assign(joined, "total_amount",
                               LAMBDA r, i : total_amount(r[price], r["quantity"],
                                                          r["discount"]))
             status == assign(amounts, "delivery_status",
                              LAMBDA r, i : delivery_status(r["shippeddate"]))
             cleaned == IF "customerid" \in status.cols
                        THEN assign(status, "customerid",
                                    LAMBDA r, i : clean_customer_id(r["customerid"]))
                        ELSE status
             clients == link_dimension(cleaned, client_dim,
                                       "customerid", "bk_customer_id", "sk_client")
             employees == link_dimension(clients, employee_dim,
                                         "employeeid", "bk_employee_id", "sk_employee")
             texts == assign(employees, "orderdate",
                             LAMBDA r, i : astype_str(r["orderdate"]))
             dated == assign(texts, "sk_date", LAMBDA r, i : date_key(r["orderdate"]))
             renamed == rename(dated,
                            [c \in {"orderid", price} |->
                               IF c = "orderid" THEN "bk_order_id" ELSE "unit_price"])
             keyed == surrogate_keys(renamed, "fact_id")
         IN  IF price = "" THEN EmptyDataFrame
             ELSE select(keyed, {"fact_id", "bk_order_id", "sk_client", "sk_employee",
                                 "sk_date", "quantity", "unit_price", "discount",
                                 "total_amount", "delivery_status"})

-----------------------------------------------------------------------------
(* The processes: elt.py, transformer.py, loader.py and validator.py run as  *)
(* __main__, one after the other as the schedule says.                       *)

Scripts == {"elt.py", "transformer.py", "loader.py", "validator.py"}

script == schedule[run].script

\* PYTHONHASHSEED of the running process, as the order it gives the region names
hashseed == schedule[run].seed

\* execute_transformation's load_source_data calls, in order
LoadPlan ==
    << [var |-> "orders", table |-> "orders", keys |-> {<<"orderid">>}],
       [var |-> "details", table |-> "order_details",
        keys |-> {<<"orderid">>, <<"productid">>}],
       [var |-> "customers", table |-> "customers", keys |-> {<<"customerid">>}],
       [var |-> "employees", table |-> "employees", keys |-> {<<"employeeid">>}],
       [var |-> "emp_territories", table |-> "employeeterritories",
        keys |-> {<<"employeeid">>, <<"territoryid">>}],
       [var |-> "territories", table |-> "territories", keys |-> {<<"territoryid">>}],
       [var |-> "regions", table |-> "region", keys |-> {<<"regionid">>}] >>

FrameNames == {LoadPlan[i].var : i \in 1..Len(LoadPlan)}

TableNames == {LoadPlan[i].table : i \in 1..Len(LoadPlan)}

\* execute_transformation's to_csv calls, in order
SavePlan == <<"cleaned_date", "cleaned_clients", "cleaned_employees", "cleaned_sales">>

\* load_staging_to_warehouse's staging_to_warehouse_map, in order
WarehousePlan ==
    << [staging |-> "cleaned_date", warehouse |-> "DimDate"],
       [staging |-> "cleaned_clients", warehouse |-> "DimClient"],
       [staging |-> "cleaned_employees", warehouse |-> "DimEmployee"],
       [staging |-> "cleaned_sales", warehouse |-> "FactSales"] >>

\* the functions transformer.py defines
TransformerFunctions ==
    {"standardize_column_names", "load_source_data", "create_debug_master",
     "create_date_dimension", "create_client_dimension", "add_territory_info",
     "create_employee_dimension", "create_sales_fact", "execute_transformation"}

\* the attribute of transformer that run_etl_pipeline calls
transformation_entry == "run_transformation"

NoFiles == [n \in {} |-> EmptyDataFrame]

NoFrames == [v \in FrameNames |-> EmptyDataFrame]

start_of(s) ==
    CASE s = "elt.py" -> "extraction"
      [] s = "transformer.py" -> "load"
      [] s = "loader.py" -> "loading"
      [] s = "validator.py" -> "validation"

Terminal == {"exit", "raised", "returned"}

\* the exception swallowed, the run going on to the writes
swallowed_exception == "save"

\* where an exception of a phase of run_etl_pipeline, or of a script's main
\* call, leaves the process
after_exception == IF script = "elt.py" THEN "returned" ELSE "raised"

InitAt(directory, processes, refused) ==
    /\ raw = directory
    /\ schedule = processes
    /\ faults = refused
    /\ run = 1
    /\ pc = start_of(schedule[1].script)
    /\ nload = 0
    /\ frames = NoFrames
    /\ dim_date = EmptyDataFrame
    /\ dim_client = EmptyDataFrame
    /\ dim_employee = EmptyDataFrame
    /\ fact_sales = EmptyDataFrame
    /\ nsaved = 0
    /\ staging = NoFiles
    /\ warehouse = NoFiles
    /\ validation = "none"
    /\ done_runs = <<>>
    /\ log = <<>>

env == <<raw, schedule, faults>>
locals == <<nload, frames, dim_date, dim_client, dim_employee, fact_sales, nsaved>>
disk == <<staging, warehouse, validation>>

\* run_etl_pipeline, phase 1: the two extractors.  Each skips its work when
\* its connection is unavailable and contains its per-table errors; an error
\* outside those handlers (discovering the Access tables) is raised.
ExtractionPhase ==
    /\ pc = "extraction"
    /\ log' = Append(log, "extract")
    /\ \E raised \in BOOLEAN : pc' = IF raised THEN "returned" ELSE "transformation"
    /\ UNCHANGED <<env, run, locals, disk, done_runs>>

\* run_etl_pipeline, phase 2: the call transformer.run_transformation()
TransformationPhase ==
    /\ pc = "transformation"
    /\ log' = Append(log, "transform")
    /\ pc' = IF transformation_entry \in TransformerFunctions THEN "load" ELSE "returned"
    /\ UNCHANGED <<env, run, locals, disk, done_runs>>

\* execute_transformation: the next load_source_data call
LoadSourceData ==
    /\ pc = "load"
    /\ LET step == LoadPlan[nload + 1]
       IN  frames' = [frames EXCEPT
                        ![step.var] = load_source_data(raw[step.table], step.keys)]
    /\ nload' = nload + 1
    /\ pc' = IF nload + 1 = Len(LoadPlan) THEN "dim_date" ELSE "load"
    /\ UNCHANGED <<env, run, dim_date, dim_client, dim_employee, fact_sales, nsaved,
                   disk, done_runs, log>>

CreateDateDimension ==
    /\ pc = "dim_date"
    /\ IF create_date_dimension_raises(frames["orders"])
       THEN /\ pc' = after_exception
            /\ UNCHANGED <<frames, dim_date>>
       ELSE /\ pc' = "dim_client"
            /\ dim_date' = create_date_dimension(frames["orders"])
            /\ frames' = IF empty(frames["orders"]) THEN frames
                         ELSE [frames EXCEPT
                                 !["orders"] = orderdate_astype_str(frames["orders"])]
    /\ UNCHANGED <<env, run, nload, dim_client, dim_employee, fact_sales, nsaved,
                   disk, done_runs, log>>

CreateClientDimension ==
    /\ pc = "dim_client"
    /\ IF create_client_dimension_raises(frames["customers"])
       THEN /\ pc' = after_exception
            /\ UNCHANGED dim_client
       ELSE /\ pc' = "dim_employee"
            /\ dim_client' = create_client_dimension(frames["customers"])
    /\ UNCHANGED <<env, run, nload, frames, dim_date, dim_employee, fact_sales, nsaved,
                   disk, done_runs, log>>

CreateEmployeeDimension ==
    /\ pc = "dim_employee"
    /\ IF create_employee_dimension_raises(frames["employees"], frames["emp_territories"],
                                           frames["territories"], frames["regions"])
       THEN /\ pc' = after_exception
            /\ UNCHANGED dim_employee
       ELSE /\ pc' = "fact"
            /\ dim_employee' =
                 create_employee_dimension(frames["employees"], frames["emp_territories"],
                                           frames["territories"], frames["regions"],
                                           hashseed)
    /\ UNCHANGED <<env, run, nload, frames, dim_date, dim_client, fact_sales, nsaved,
                   disk, done_runs, log>>

CreateSalesFact ==
    /\ pc = "fact"
    /\ IF create_sales_fact_raises(frames["orders"], frames["details"],
                                   dim_client, dim_employee)
       THEN /\ pc' = after_exception
            /\ UNCHANGED fact_sales
       ELSE /\ pc' = "save"
            /\ fact_sales' = create_sales_fact(frames["orders"], frames["details"],
                                               dim_client, dim_employee)
    /\ UNCHANGED <<env, run, nload, frames, dim_date, dim_client, dim_employee, nsaved,
                   disk, done_runs, log>>

\* execute_transformation: the next to_csv call
SaveStagingFile ==
    /\ pc = "save"
    /\ LET name == SavePlan[nsaved + 1]
           table == <<dim_date, dim_client, dim_employee, fact_sales>>[nsaved + 1]
       IN  IF name \in faults
           THEN /\ pc' = after_exception
                /\ UNCHANGED <<staging, nsaved>>
           ELSE /\ staging' = [n \in DOMAIN staging \cup {name} |->
                                 IF n = name THEN table ELSE staging[n]]
                /\ nsaved' = nsaved + 1
                /\ pc' = IF nsaved + 1 < Len(SavePlan) THEN "save"
                         ELSE IF script = "elt.py" THEN "loading" ELSE "exit"
    /\ UNCHANGED <<env, run, nload, frames, dim_date, dim_client, dim_employee,
                   fact_sales, warehouse, validation, done_runs, log>>

\* load_staging_to_warehouse: the staging files that exist are copied in the
\* map's order; an I/O error at the k-th of them is raised, the earlier stay
LoadingPhase ==
    /\ pc = "loading"
    /\ log' = Append(log, "load")
    /\ LET present == SelectSeq(WarehousePlan, LAMBDA m : m.staging \in DOMAIN staging)
       IN  \E k \in 0..Len(present) :
             LET copied == {present[i] : i \in 1..(IF k = 0 THEN Len(present) ELSE k - 1)}
                 names == {m.warehouse : m \in copied}
                 source(n) == (CHOOSE m \in copied : m.warehouse = n).staging
             IN  /\ warehouse' = [n \in DOMAIN warehouse \cup names |->
                                    IF n \in names THEN staging[source(n)]
                                    ELSE warehouse[n]]
                 /\ pc' = IF k # 0 THEN after_exception
                          ELSE IF script = "elt.py" THEN "validation" ELSE "exit"
    /\ UNCHANGED <<env, run, locals, staging, validation, done_runs>>

\* execute_warehouse_validation: every table must exist and hold rows
ValidationPhase ==
    /\ pc = "validation"
    /\ log' = Append(log, "validate")
    /\ validation' =
         IF \A i \in 1..Len(WarehousePlan) :
              /\ WarehousePlan[i].warehouse \in DOMAIN warehouse
              /\ ~empty(warehouse[WarehousePlan[i].warehouse])
         THEN "PASSED" ELSE "FAILED"
    /\ pc' = "exit"
    /\ UNCHANGED <<env, run, locals, staging, warehouse, done_runs>>

\* the process has ended; the next one of the schedule starts
StartNextProcess ==
    /\ pc \in Terminal
    /\ run < Len(schedule)
    /\ done_runs' = Append(done_runs,
                           [script |-> script, pc |-> pc, log |-> log,
                            dim_date |-> dim_date, dim_client |-> dim_client,
                            dim_employee |-> dim_employee, fact_sales |-> fact_sales])
    /\ run' = run + 1
    /\ pc' = start_of(schedule[run + 1].script)
    /\ nload' = 0
    /\ frames' = NoFrames
    /\ dim_date' = EmptyDataFrame
    /\ dim_client' = EmptyDataFrame
    /\ dim_employee' = EmptyDataFrame
    /\ fact_sales' = EmptyDataFrame
    /\ nsaved' = 0
    /\ log' = <<>>
    /\ UNCHANGED <<env, disk>>

Next ==
    \/ ExtractionPhase
    \/ TransformationPhase
    \/ LoadSourceData
    \/ CreateDateDimension
    \/ CreateClientDimension
    \/ CreateEmployeeDimension
    \/ CreateSalesFact
    \/ SaveStagingFile
    \/ LoadingPhase
    \/ ValidationPhase
    \/ StartNextProcess

-----------------------------------------------------------------------------
(* Raw directories.  A source file is [tag, readable, header, rows]: the     *)
(* extractor that wrote it, whether read_csv can read it, its header (the    *)
(* source's column names) and its rows, each a sequence of cells.            *)

\* the file-name prefixes of the two extractors
SourceTags == {"sql", "access"}

SeqsUpTo(S, n) == UNION {[1..k -> S] : k \in 0..n}

\* the orders glob can list the files of a table in: any order of any of them
Discoveries ==
    {order \in SeqsUpTo(SourceTags, Cardinality(SourceTags)) :
        \A i, j \in 1..Len(order) : i # j => order[i] # order[j]}

File(tag, header, rows) ==
    [tag |-> tag, readable |-> TRUE, header |-> header, rows |-> rows]

Unreadable(tag) == [tag |-> tag, readable |-> FALSE, header |-> <<>>, rows |-> <<>>]

East == <<"East">>
West == <<"West">>

Seeds == {<<East, West>>, <<West, East>>}

Day1 == <<"2013", "-", "07", "-", "04">>
Day2 == <<"2013", "-", "07", "-", "05">>

OrdersHeader ==
    << <<"Order", "ID">>, <<"Customer", "ID">>, <<"Employee", "ID">>,
       <<"Order", "Date">>, <<"Shipped", "Date">> >>

DetailsHeader ==
    << <<"Order", "ID">>, <<"Product", "ID">>, <<"Unit", "Price">>,
       <<"Quantity">>, <<"Discount">> >>

CustomersHeader == << <<"Customer", "ID">>, <<"Company", "Name">> >>

EmployeesHeader == << <<"Employee", "ID">>, <<"First", "Name">>, <<"Last", "Name">> >>

EmployeeTerritoriesHeader == << <<"Employee", "ID">>, <<"Territory", "ID">> >>

TerritoriesHeader ==
    << <<"Territory", "ID">>, <<"Territory", "Description">>, <<"Region", "ID">> >>

RegionHeader == << <<"Region", "ID">>, <<"Region", "Description">> >>

\* a small warehouse source: two orders, three order lines, two customers,
\* two employees, one of them with territories in two regions
BaseRaw ==
    [t \in TableNames |->
       CASE t = "orders" ->
              << File("sql", OrdersHeader,
                      << << <<"1">>, <<"a">>, <<"1">>, Day1, Day2 >>,
                         << <<"2">>, <<"b">>, <<"2">>, Day2, NaN >> >>) >>
         [] t = "order_details" ->
              << File("sql", DetailsHeader,
                      << << <<"1">>, <<"1">>, <<"10">>, <<"5">>, <<"0.1">> >>,
                         << <<"1">>, <<"2">>, <<"2">>, <<"1">>, <<"0">> >>,
                         << <<"2">>, <<"1">>, <<"10">>, <<"2">>, <<"0">> >> >>) >>
         [] t = "customers" ->
              << File("sql", CustomersHeader,
                      << << <<"A">>, <<"X">> >>, << <<"B">>, <<"Y">> >> >>) >>
         [] t = "employees" ->
              << File("sql", EmployeesHeader,
                      << << <<"1">>, <<"Ann">>, <<"Lee">> >>,
                         << <<"2">>, <<"Bob">>, <<"Ray">> >> >>) >>
         [] t = "employeeterritories" ->
              << File("sql", EmployeeTerritoriesHeader,
                      << << <<"1">>, <<"1">> >>, << <<"1">>, <<"2">> >> >>) >>
         [] t = "territories" ->
              << File("sql", TerritoriesHeader,
                      << << <<"1">>, <<"Boston">>, <<"1">> >>,
                         << <<"2">>, <<"Denver">>, <<"2">> >> >>) >>
         [] t = "region" ->
              << File("sql", RegionHeader,
                      << << <<"1">>, East >>, << <<"2">>, West >> >>) >>]

with(directory, table, files) == [directory EXCEPT ![table] = files]

Process(s, seed) == [script |-> s, seed |-> seed]

\* every script once, and the stages by hand one after the other
EveryScript ==
    LET seed == <<East, West>>
    IN  { <<Process("elt.py", seed)>>,
          <<Process("transformer.py", seed), Process("loader.py", seed)>>,
          <<Process("loader.py", seed), Process("validator.py", seed)>>,
          <<Process("transformer.py", seed), Process("loader.py", seed),
            Process("validator.py", seed)>> }

InitEveryScript == \E processes \in EveryScript : InitAt(BaseRaw, processes, {})

TransformerOnce == <<Process("transformer.py", <<East, West>>)>>

\* the files glob lists for one table, given what each extractor wrote
listed(order, by_tag) == [i \in 1..Len(order) |-> by_tag[order[i]]]

FilesOf(tag, Headers, Rows, n) ==
    {Unreadable(tag)} \cup
    {File(tag, h, rows) : h \in Headers, rows \in SeqsUpTo(Rows, n)}

-----------------------------------------------------------------------------
(* Specification for the source loader: the files of Customers (one key      *)
(* column) and of Order Details (two key columns) vary.                      *)

MaxRows == 2

\* the customer columns as the two sources name them
CustomerHeaders(tag) ==
    IF tag = "sql"
    THEN { CustomersHeader }
    ELSE { << <<" ", "customer", "_", "id">>, <<"Company", " ", "Name">> >> }

CustomerRows ==
    { << <<"a">>, <<"X">> >>, << <<"a">>, <<"Y">> >>, << <<"b">>, <<"X">> >> }

\* a customers file whose key column has another name
CodedCustomers ==
    File("access", << <<"Customer", "Code">>, <<"Company", "Name">> >>,
         << << <<"a">>, <<"Y">> >>, << <<"b">>, <<"X">> >> >>)

DetailRows ==
    { << <<"1">>, <<"1">>, <<"10">>, <<"5">>, <<"0">> >>,
      << <<"1">>, <<"1">>, <<"10">>, <<"2">>, <<"0">> >>,
      << <<"1">>, <<"2">>, <<"10">>, <<"5">>, <<"0">> >> }

InitLoader ==
    \/ InitEveryScript
    \/ \E order \in Discoveries :
       \E s \in FilesOf("sql", CustomerHeaders("sql"), CustomerRows, MaxRows) :
       \E a \in FilesOf("access", CustomerHeaders("access"), CustomerRows, MaxRows)
                   \cup {CodedCustomers} :
          InitAt(with(BaseRaw, "customers",
                      listed(order, [t \in SourceTags |-> IF t = "sql" THEN s ELSE a])),
                 TransformerOnce, {})
    \/ \E order \in Discoveries :
       \E s \in FilesOf("sql", {DetailsHeader}, DetailRows, MaxRows) :
       \E a \in FilesOf("access", {DetailsHeader}, DetailRows, MaxRows) :
          InitAt(with(BaseRaw, "order_details",
                      listed(order, [t \in SourceTags |-> IF t = "sql" THEN s ELSE a])),
                 TransformerOnce, {})

SpecLoader == InitLoader /\ [][Next]_vars

-----------------------------------------------------------------------------
(* Specification for the client dimension: the customer ids of the two       *)
(* sources differ in letter case and surrounding blanks.                     *)

MaxCustomers == 2

CaseRows ==
    { << <<"a">>, <<"X">> >>, << <<"A">>, <<"Y">> >>, << <<"A", " ">>, <<"X">> >> }

InitClient ==
    \/ InitEveryScript
    \/ \E order \in Discoveries :
       \E s \in FilesOf("sql", {CustomersHeader}, CaseRows, MaxCustomers) :
       \E a \in FilesOf("access", {CustomersHeader}, CaseRows, MaxCustomers) :
          InitAt(with(BaseRaw, "customers",
                      listed(order, [t \in SourceTags |-> IF t = "sql" THEN s ELSE a])),
                 TransformerOnce, {})

SpecClient == InitClient /\ [][Next]_vars

-----------------------------------------------------------------------------
(* Specification for the employee dimension: the employees, their territory  *)
(* assignments, the territories and the regions vary.                        *)

MaxAssignments == 2

Ann == << <<"1">>, <<"Ann">>, <<"Lee">> >>
Bob == << <<"2">>, <<"Bob">>, <<"Ray">> >>

EmployeeFiles ==
    { <<File("sql", EmployeesHeader, <<Ann, Bob>>)>>,
      <<File("sql", EmployeesHeader, <<Bob>>), File("access", EmployeesHeader, <<Bob, Ann>>)>> }

\* assignments of the employees 1 and 2 to the territories 1 and 2, and of the
\* employee 1 to a territory 3 that the territory table does not hold
AssignmentRows ==
    { << e, t >> : e \in {<<"1">>, <<"2">>}, t \in {<<"1">>, <<"2">>} }
    \cup { << <<"1">>, <<"3">> >> }

AssignmentFiles ==
    { <<File("sql", EmployeeTerritoriesHeader, rows)>> :
        rows \in SeqsUpTo(AssignmentRows, MaxAssignments) }

\* the territories 1 and 2, padded as Northwind pads them, in two regions or
\* in one; without a region column; with no rows; not extracted at all
TerritoryFiles ==
    { <<File("sql", TerritoriesHeader,
             << << <<"1">>, <<"Boston", " ", " ">>, <<"1">> >>,
                << <<"2">>, <<" ", "Denver">>, <<"2">> >> >>)>>,
      <<File("sql", TerritoriesHeader,
             << << <<"1">>, <<"Boston">>, <<"1">> >>,
                << <<"2">>, <<"Denver">>, <<"1">> >> >>)>>,
      <<File("sql", << <<"Territory", "ID">>, <<"Territory", "Description">> >>,
             << << <<"1">>, <<"Boston">> >>, << <<"2">>, <<"Denver">> >> >>)>>,
      <<File("sql", TerritoriesHeader, <<>>)>>,
      <<>> }

RegionFiles ==
    { <<File("sql", RegionHeader, << << <<"1">>, East >>, << <<"2">>, West \o <<" ">> >> >>)>>,
      <<File("sql", RegionHeader, << << <<"1">>, East >> >>)>>,
      <<>> }

InitEmployee ==
    \/ InitEveryScript
    \/ \E e \in EmployeeFiles, a \in AssignmentFiles, t \in TerritoryFiles,
          r \in RegionFiles, seed \in Seeds :
          InitAt(with(with(with(with(BaseRaw, "employees", e), "employeeterritories", a),
                           "territories", t), "region", r),
                 <<Process("transformer.py", seed)>>, {})

SpecEmployee == InitEmployee /\ [][Next]_vars

-----------------------------------------------------------------------------
(* Specification for the date dimension and the fact table: the order        *)
(* dates, the order lines, and the customers and employees the orders name   *)
(* vary.                                                                     *)

MaxOrders == 3
MaxLines == 3

Day1At10 == Day1 \o <<" ", "10:00">>
Day1US == <<"07", "/", "04", "/", "2013">>
BadDate == <<"n/a">>

DateTexts == {Day1, Day1At10, Day1US, Day2, BadDate, NaN}

digit(n) == << <<"1">>, <<"2">>, <<"3">>, <<"4">>, <<"5">> >>[n]

OneFile(header, rows) == <<File("sql", header, rows)>>

\* the orders 1..n of customer a and employee 1, with the given order dates
dated_orders(dates) ==
    OneFile(OrdersHeader,
            [i \in 1..Len(dates) |-> << digit(i), <<"a">>, <<"1">>, dates[i], NaN >>])

line(order, product) == << order, product, <<"10">>, <<"2">>, <<"0">> >>

\* one line for each of the orders 1..n and a second line for the order 1
lines_of(n) ==
    OneFile(DetailsHeader,
            [i \in 1..(IF n = 0 THEN 0 ELSE n + 1) |->
               IF i = 1 THEN line(digit(1), <<"2">>) ELSE line(digit(i - 1), <<"1">>)])

\* lines of the products 1 and 2 that name the orders 1, 2 and 3
LineRows == { line(o, q) : o \in {<<"1">>, <<"2">>, <<"3">>}, q \in {<<"1">>, <<"2">>} }

\* the customers and employees an order may name: known, unknown, missing
OrderCustomers == {<<"a">>, <<"z">>, NaN}
OrderEmployees == {<<"1">>, <<"9">>}

CustomerFiles ==
    { BaseRaw["customers"],
      OneFile(CustomersHeader, << << <<"a">>, <<"X">> >>, << <<"A">>, <<"Y">> >> >>),
      <<>> }

InitDates ==
    \E dates \in SeqsUpTo(DateTexts, MaxOrders) :
        InitAt(with(with(BaseRaw, "orders", dated_orders(dates)),
                    "order_details", lines_of(Len(dates))),
               TransformerOnce, {})

InitLines ==
    \E dates \in SeqsUpTo({Day1, BadDate}, 2), rows \in SeqsUpTo(LineRows, MaxLines) :
        InitAt(with(with(BaseRaw, "orders", dated_orders(dates)),
                    "order_details", OneFile(DetailsHeader, rows)),
               TransformerOnce, {})

InitLookups ==
    \E c1, c2 \in OrderCustomers, e1, e2 \in OrderEmployees,
       customers \in CustomerFiles, employees \in {BaseRaw["employees"], <<>>} :
        InitAt(with(with(with(with(BaseRaw,
                 "orders", OneFile(OrdersHeader,
                                   << << <<"1">>, c1, e1, Day1, Day2 >>,
                                      << <<"2">>, c2, e2, Day2, NaN >> >>)),
                 "order_details", lines_of(2)),
                 "customers", customers),
                 "employees", employees),
               TransformerOnce, {})

InitFact == InitEveryScript \/ InitDates \/ InitLines \/ InitLookups

SpecFact == InitFact /\ [][Next]_vars

-----------------------------------------------------------------------------
(* Specification for the surrogate keys: the customers, the employees with   *)
(* their territories, and the orders vary.                                   *)

InitKeys == InitClient \/ InitEmployee \/ InitDates \/ InitLookups

SpecKeys == InitKeys /\ [][Next]_vars

-----------------------------------------------------------------------------
(* Specification for repeated runs: transformer.py runs twice over the same  *)
(* raw directory, each process with its own hash seed.                       *)

OverlappingCustomers ==
    [t \in SourceTags |->
       IF t = "sql"
       THEN File("sql", CustomersHeader, << << <<"a">>, <<"X">> >> >>)
       ELSE File("access", CustomersHeader,
                 << << <<"a">>, <<"Y">> >>, << <<"b">>, <<"X">> >> >>)]

TransformerTwice ==
    { <<Process("transformer.py", s1), Process("transformer.py", s2)>> :
        s1 \in Seeds, s2 \in Seeds }

InitRerun ==
    \/ InitEveryScript
    \/ \E a \in AssignmentFiles, t \in TerritoryFiles, processes \in TransformerTwice :
          InitAt(with(with(BaseRaw, "employeeterritories", a), "territories", t),
                 processes, {})
    \/ \E order \in Discoveries, processes \in TransformerTwice :
          InitAt(with(BaseRaw, "customers", listed(order, OverlappingCustomers)),
                 processes, {})

SpecRerun == InitRerun /\ [][Next]_vars

-----------------------------------------------------------------------------
(* Specification for the pipeline: any one or two of the scripts run, over   *)
(* the small warehouse source, on a disk that may refuse one staging file.   *)

MaxProcesses == 2

InitPipeline ==
    \E scripts \in SeqsUpTo(Scripts, MaxProcesses) \ {<<>>},
       refused \in {{}} \cup {{SavePlan[n]} : n \in 1..Len(SavePlan)} :
        InitAt(BaseRaw,
               [i \in 1..Len(scripts) |-> Process(scripts[i], <<East, West>>)],
               refused)

SpecPipeline == InitPipeline /\ [][Next]_vars

-----------------------------------------------------------------------------
(* Specification for the price column: the order headers and the order lines *)
(* each carry a unit price or not.                                           *)

MaxPricedLines == 2

\* the sequence without its k-th element
without(seq, k) == [i \in 1..(Len(seq) - 1) |-> IF i < k THEN seq[i] ELSE seq[i + 1]]

PricedOrdersHeader == OrdersHeader \o << <<"Unit", "Price">> >>

\* two orders whose headers carry the prices p and 2
priced_orders(p) ==
    << << <<"1">>, <<"a">>, <<"1">>, Day1, Day2, p >>,
       << <<"2">>, <<"b">>, <<"2">>, Day2, NaN, <<"2">> >> >>

\* order, product, unit price, quantity, discount
PricedLineRows ==
    { << <<"1">>, <<"1">>, <<"10">>, <<"2">>, <<"0">> >>,
      << <<"1">>, <<"2">>, <<"1">>, <<"5">>, <<"0.1">> >>,
      << <<"2">>, <<"1">>, <<"10">>, <<"1">>, <<"0">> >> }

OrderFilesWithPrice(has, p) ==
    IF has THEN OneFile(PricedOrdersHeader, priced_orders(p))
    ELSE OneFile(OrdersHeader,
                 [i \in 1..Len(priced_orders(p)) |-> without(priced_orders(p)[i], 6)])

LineFilesWithPrice(has, rows) ==
    IF has THEN OneFile(DetailsHeader, rows)
    ELSE OneFile(without(DetailsHeader, 3),
                 [i \in 1..Len(rows) |-> without(rows[i], 3)])

InitPrices ==
    \/ InitEveryScript
    \/ \E on_header, on_line \in BOOLEAN, p \in {<<"5">>, <<"2">>},
          rows \in SeqsUpTo(PricedLineRows, MaxPricedLines) :
          InitAt(with(with(BaseRaw, "orders", OrderFilesWithPrice(on_header, p)),
                      "order_details", LineFilesWithPrice(on_line, rows)),
                 TransformerOnce, {})

SpecPrice == InitPrices /\ [][Next]_vars

-----------------------------------------------------------------------------
(* Specification for unavailable sources: the Customers and the Employees    *)
(* files are there, missing or unreadable, and the orders name known and     *)
(* unknown customers and employees.                                          *)

InitUnavailable ==
    \/ InitEveryScript
    \/ \E c1, c2 \in OrderCustomers, e1, e2 \in OrderEmployees,
          customers \in {BaseRaw["customers"], <<>>, <<Unreadable("sql")>>},
          employees \in {BaseRaw["employees"], <<>>, <<Unreadable("access")>>} :
          InitAt(with(with(with(with(BaseRaw,
                   "orders", OneFile(OrdersHeader,
                                     << << <<"1">>, c1, e1, Day1, Day2 >>,
                                        << <<"2">>, c2, e2, Day2, NaN >> >>)),
                   "order_details", lines_of(2)),
                   "customers", customers),
                   "employees", employees),
                 TransformerOnce, {})

SpecUnavailable == InitUnavailable /\ [][Next]_vars

-----------------------------------------------------------------------------
(* Specification for the transformation's steps: a source table may lack a   *)
(* column a builder needs, the disk may refuse one staging file, and         *)
(* transformer.py runs once or twice.                                        *)

\* the files without the k-th column
lacking(files, k) ==
    [f \in 1..Len(files) |->
       File(files[f].tag, without(files[f].header, k),
            [i \in 1..Len(files[f].rows) |-> without(files[f].rows[i], k)])]

InitTransformation ==
    \/ InitEveryScript
    \/ \E orders \in {BaseRaw["orders"], lacking(BaseRaw["orders"], 4)},
          customers \in {BaseRaw["customers"], <<CodedCustomers>>},
          employees \in {BaseRaw["employees"], lacking(BaseRaw["employees"], 3)},
          details \in {BaseRaw["order_details"], lacking(BaseRaw["order_details"], 4)},
          refused \in {{}} \cup {{SavePlan[n]} : n \in 1..Len(SavePlan)},
          processes \in {TransformerOnce} \cup TransformerTwice :
          InitAt(with(with(with(with(BaseRaw, "orders", orders), "customers", customers),
                           "employees", employees), "order_details", details),
                 processes, refused)

SpecTransformation == InitTransformation /\ [][Next]_vars

-----------------------------------------------------------------------------
(* Properties of the source loader *)

\* the rows of a table's source files as load_source_data meets them: file by
\* file in discovery order, each file's rows in row order
encountered(table) == concat(read_all(raw[table]))

\* the loaded tables no builder has changed yet
untouched(i) == i <= nload /\ (LoadPlan[i].var = "orders" => pc = "load")

declared_keys(i) == {str_join(k) : k \in LoadPlan[i].keys}

first_with_key(rows, keys, k) ==
    CHOOSE n \in 1..Len(rows) :
        /\ key_of(rows[n], keys) = k
        /\ \A m \in 1..(n - 1) : key_of(rows[m], keys) # k

\* C1: when every declared key column is present after column-name
\* normalization, the table load_source_data returns holds exactly one row for
\* each distinct key value of the source files' rows, and that row is the first
\* one met in file-discovery order, then row order.
C1_FirstRowPerKey ==
    \A i \in 1..Len(LoadPlan) :
        untouched(i) =>
            LET all == encountered(LoadPlan[i].table)
                keys == declared_keys(i)
                out == frames[LoadPlan[i].var].rows
            IN  (read_all(raw[LoadPlan[i].table]) # <<>> /\ keys \subseteq all.cols) =>
                  /\ \A m, n \in 1..Len(out) :
                        m # n => key_of(out[m], keys) # key_of(out[n], keys)
                  /\ \A n \in 1..Len(all.rows) :
                        \E m \in 1..Len(out) :
                            key_of(out[m], keys) = key_of(all.rows[n], keys)
                  /\ \A m \in 1..Len(out) :
                        out[m] = all.rows[first_with_key(all.rows, keys,
                                                         key_of(out[m], keys))]

\* two readable files of Customers hold the same customer id with different
\* company names, and the loaded table has the row of the file listed first
C1_Witness ==
    /\ nload >= 3
    /\ Len(raw["customers"]) = 2
    /\ raw["customers"][1].readable /\ raw["customers"][2].readable
    /\ raw["customers"][1].tag = "access"
    /\ \E m \in 1..Len(raw["customers"][1].rows), n \in 1..Len(raw["customers"][2].rows) :
          /\ raw["customers"][1].rows[m][1] = raw["customers"][2].rows[n][1]
          /\ raw["customers"][1].rows[m][2] # raw["customers"][2].rows[n][2]
          /\ m = 1
          /\ \E r \in 1..Len(frames["customers"].rows) :
                /\ "customerid" \in frames["customers"].cols
                /\ frames["customers"].rows[r]["customerid"] = raw["customers"][1].rows[m][1]
                /\ frames["customers"].rows[r]["companyname"] = raw["customers"][1].rows[m][2]

-----------------------------------------------------------------------------
(* Properties of the client dimension *)

\* the positions at which execute_transformation holds the built dim_client
client_built == pc \in {"dim_employee", "fact", "save", "exit"}
                /\ script = "transformer.py"

\* C2: no two rows of the DimClient built from the loaded Customers table carry
\* the same bk_customer_id, also when raw customer ids differ only in letter
\* case or surrounding whitespace.
C2_UniqueCustomerKey ==
    client_built =>
        \A m, n \in 1..Len(dim_client.rows) :
            m # n => dim_client.rows[m]["bk_customer_id"]
                     # dim_client.rows[n]["bk_customer_id"]

-----------------------------------------------------------------------------
(* Properties of the employee dimension *)

\* the positions at which execute_transformation holds the built dim_employee
employee_built == pc \in {"fact", "save", "exit"} /\ script = "transformer.py"

assignments_of(id) ==
    SelectSeq(frames["emp_territories"].rows, LAMBDA a : a["employeeid"] = id)

territory_of(a) ==
    SelectSeq(frames["territories"].rows, LAMBDA t : t["territoryid"] = a["territoryid"])

\* the description of the territory of an assignment, as text
described(a) ==
    IF territory_of(a) = <<>> THEN <<"nan">>
    ELSE str_strip(astype_str(territory_of(a)[1]["territorydescription"]))

\* the description of the region of an assignment's territory, as text
region_described(a) ==
    IF empty(frames["regions"]) \/ "regionid" \notin frames["territories"].cols
    THEN Unknown
    ELSE LET t == territory_of(a)
             r == IF t = <<>> THEN <<>>
                  ELSE SelectSeq(frames["regions"].rows,
                                 LAMBDA x : x["regionid"] = t[1]["regionid"])
         IN  IF r = <<>> THEN <<"nan">>
             ELSE str_strip(astype_str(r[1]["regiondescription"]))

Orderings(S) ==
    {p \in [1..Cardinality(S) -> S] : \A i, j \in 1..Cardinality(S) : i # j => p[i] # p[j]}

\* C8: if the employee-territory table or the territory table is empty, every
\* employee has territories = sales_region = "Unknown"; if both hold rows, an
\* employee without an assignment has "No Territory" and "No Region", and an
\* employee with assignments has neither default but the joined list of its
\* territory descriptions and the joined distinct set of its region descriptions.
C8_TerritoryDefaults ==
    employee_built =>
        \A n \in 1..Len(dim_employee.rows) :
            LET e == dim_employee.rows[n]
                mine == assignments_of(e["bk_employee_id"])
                regions == {region_described(mine[i]) : i \in 1..Len(mine)}
            IN  IF empty(frames["emp_territories"]) \/ empty(frames["territories"])
                THEN e["territories"] = Unknown /\ e["sales_region"] = Unknown
                ELSE IF mine = <<>>
                THEN e["territories"] = NoTerritory /\ e["sales_region"] = NoRegion
                ELSE /\ e["territories"] # NoTerritory
                     /\ e["sales_region"] # NoRegion
                     /\ e["territories"]
                          = join_texts([i \in 1..Len(mine) |-> described(mine[i])])
                     /\ \E p \in Orderings(regions) : e["sales_region"] = join_texts(p)

\* an employee with two territories in two regions beside one with none
C8_Witness ==
    /\ employee_built
    /\ Len(dim_employee.rows) = 2
    /\ \E m, n \in 1..2 :
          /\ dim_employee.rows[m]["territories"] = NoTerritory
          /\ dim_employee.rows[m]["sales_region"] = NoRegion
          /\ dim_employee.rows[n]["territories"] = <<"Boston", ",", " ", "Denver">>
          /\ dim_employee.rows[n]["sales_region"] = <<"West", ",", " ", "East">>

-----------------------------------------------------------------------------
(* Properties of the surrogate keys *)

date_built == pc \in {"dim_client", "dim_employee", "fact", "save", "exit"}
              /\ script = "transformer.py"

fact_built == pc \in {"save", "exit"} /\ script = "transformer.py"

dense(df, col) == \A n \in 1..Len(df.rows) : df.rows[n][col] = <<n>>

\* C3: in every non-empty output of create_client_dimension,
\* create_employee_dimension and create_sales_fact the surrogate key column,
\* read in row order, is 1, 2, ..., N; for DimEmployee also after the territory
\* aggregates are merged onto it.
C3_DenseSurrogateKeys ==
    /\ client_built /\ ~empty(dim_client) => dense(dim_client, "sk_client")
    /\ employee_built /\ ~empty(dim_employee) => dense(dim_employee, "sk_employee")
    /\ fact_built /\ ~empty(fact_sales) => dense(fact_sales, "fact_id")

\* the three outputs hold several rows, the employee's territories merged
C3_Witness ==
    /\ fact_built
    /\ Len(dim_client.rows) >= 2
    /\ Len(dim_employee.rows) >= 2
    /\ Len(fact_sales.rows) >= 3
    /\ \E n \in 1..Len(dim_employee.rows) :
          dim_employee.rows[n]["territories"] = <<"Boston", ",", " ", "Denver">>
    /\ fact_sales.rows[3]["fact_id"] = <<3>>

-----------------------------------------------------------------------------
(* Properties of the date dimension and of the fact table *)

parsed(order) == to_datetime(astype_str(order["orderdate"]))

\* the calendar days among the parseable order dates
order_days ==
    {normalize(parsed(frames["orders"].rows[n])) :
        n \in {m \in 1..Len(frames["orders"].rows) : parsed(frames["orders"].rows[m]) # NaT}}

\* C4: DimDate has exactly one row for each distinct calendar date among the
\* parseable order dates, so sk_date is unique, and the rows ascend with
\* sk_date(d1) < sk_date(d2) whenever d1 < d2; also when several orders fall on
\* one calendar day at different times of the day.
C4_OneRowPerCalendarDate ==
    date_built /\ ~empty(frames["orders"]) =>
        /\ \A day \in order_days :
              Cardinality({n \in 1..Len(dim_date.rows) :
                             normalize(dim_date.rows[n]["full_date"]) = day}) = 1
        /\ \A m, n \in 1..Len(dim_date.rows) :
              m < n => dim_date.rows[m]["sk_date"][1] < dim_date.rows[n]["sk_date"][1]

\* the order headers, and the lines of the deduplicated OrderDetails that name one
headers == frames["orders"].rows

lines_for(order) ==
    SelectSeq(frames["details"].rows, LAMBDA l : l["orderid"] = order["orderid"])

joined_lines ==
    SelectSeq(frames["details"].rows,
              LAMBDA l : \E n \in 1..Len(headers) : headers[n]["orderid"] = l["orderid"])

\* what FactSales keeps of an order line
kept_of_line(l) == <<l["orderid"], l["quantity"], l["unitprice"], l["discount"]>>
kept_of_fact(f) == <<f["bk_order_id"], f["quantity"], f["unit_price"], f["discount"]>>

count(rows, kept(_), value) == Cardinality({n \in 1..Len(rows) : kept(rows[n]) = value})

\* C5: FactSales holds exactly one row for each line of the deduplicated
\* OrderDetails whose order id matches an order header: none is dropped, none
\* appears twice, whatever DimClient and DimEmployee hold.
C5_OneRowPerOrderLine ==
    fact_built /\ ~empty(frames["orders"]) /\ ~empty(frames["details"]) =>
        /\ Len(fact_sales.rows) = Len(joined_lines)
        /\ \A n \in 1..Len(joined_lines) :
              count(fact_sales.rows, kept_of_fact, kept_of_line(joined_lines[n]))
                = count(joined_lines, kept_of_line, kept_of_line(joined_lines[n]))

client_keys == {dim_client.rows[n]["bk_customer_id"] : n \in 1..Len(dim_client.rows)}

employee_keys == {dim_employee.rows[n]["bk_employee_id"] : n \in 1..Len(dim_employee.rows)}

\* every line of the order is in the fact table, and every fact row of the
\* order has a null key in the column
present_with_null(order, sk) ==
    /\ \A n \in 1..Len(lines_for(order)) :
          \E m \in 1..Len(fact_sales.rows) :
              /\ kept_of_fact(fact_sales.rows[m]) = kept_of_line(lines_for(order)[n])
              /\ fact_sales.rows[m][sk] = NaN
    /\ \A m \in 1..Len(fact_sales.rows) :
          fact_sales.rows[m]["bk_order_id"] = order["orderid"]
              => fact_sales.rows[m][sk] = NaN

\* C6: an order line with a matching header whose normalized customer id
\* matches no bk_customer_id of a non-empty DimClient is still in the output,
\* with a null sk_client; likewise an employee id that matches no DimEmployee
\* row gives a null sk_employee without dropping the row.
C6_UnmatchedKeysAreNull ==
    fact_built =>
        \A n \in 1..Len(headers) :
            /\ (~empty(dim_client)
                /\ clean_customer_id(headers[n]["customerid"]) \notin client_keys)
                  => present_with_null(headers[n], "sk_client")
            /\ (~empty(dim_employee) /\ headers[n]["employeeid"] \notin employee_keys)
                  => present_with_null(headers[n], "sk_employee")

\* an order of an unknown customer and an unknown employee, its lines kept
C6_Witness ==
    /\ fact_built
    /\ ~empty(dim_client) /\ ~empty(dim_employee)
    /\ \E n \in 1..Len(headers) :
          /\ headers[n]["customerid"] = <<"z">>
          /\ headers[n]["employeeid"] = <<"9">>
          /\ Len(lines_for(headers[n])) = 2
          /\ Cardinality({m \in 1..Len(fact_sales.rows) :
                            /\ fact_sales.rows[m]["bk_order_id"] = headers[n]["orderid"]
                            /\ fact_sales.rows[m]["sk_client"] = NaN
                            /\ fact_sales.rows[m]["sk_employee"] = NaN}) = 2
    /\ \E m \in 1..Len(fact_sales.rows) : fact_sales.rows[m]["sk_client"] # NaN

\* the date key the claim gives an order date
expected_date_key(order) ==
    IF parsed(order) = NaT THEN <<19000101>>
    ELSE <<parsed(order)[1] * 10000 + parsed(order)[2] * 100 + parsed(order)[3]>>

\* C7: the sk_date of every FactSales row is the YYYYMMDD integer of its order
\* header's order date when that parses, and 19000101 when it is missing or
\* unparseable; an unparseable order date removes no fact row, while DimDate
\* holds no row for it.
C7_DateKeyOrSentinel ==
    fact_built =>
        /\ \A m \in 1..Len(fact_sales.rows) :
              \E n \in 1..Len(headers) :
                  /\ headers[n]["orderid"] = fact_sales.rows[m]["bk_order_id"]
                  /\ fact_sales.rows[m]["sk_date"] = expected_date_key(headers[n])
        /\ \A n \in 1..Len(headers) :
              parsed(headers[n]) = NaT =>
                  \A k \in 1..Len(lines_for(headers[n])) :
                      \E m \in 1..Len(fact_sales.rows) :
                          /\ kept_of_fact(fact_sales.rows[m])
                               = kept_of_line(lines_for(headers[n])[k])
                          /\ fact_sales.rows[m]["sk_date"] = <<19000101>>
        /\ Len(fact_sales.rows) >= Len(joined_lines)
        /\ {dim_date.rows[n]["full_date"] : n \in 1..Len(dim_date.rows)}
             = {parsed(headers[n]) : n \in 1..Len(headers)} \ {NaT}
        /\ Len(dim_date.rows)
             = Cardinality({parsed(headers[n]) : n \in 1..Len(headers)} \ {NaT})

\* three orders, one of them with an unparseable date, and four lines: four
\* fact rows, one of them with the sentinel, and two DimDate rows
C7_Witness ==
    /\ fact_built
    /\ Len(headers) = 3
    /\ Cardinality({n \in 1..3 : parsed(headers[n]) = NaT}) = 1
    /\ \E n \in 1..3 : headers[n]["orderdate"] = BadDate
    /\ Len(frames["details"].rows) = 4
    /\ Len(fact_sales.rows) = 4
    /\ Cardinality({m \in 1..4 : fact_sales.rows[m]["sk_date"] = <<19000101>>}) = 1
    /\ \E m \in 1..4 : fact_sales.rows[m]["sk_date"] = <<20130704>>
    /\ Len(dim_date.rows) = 2

-----------------------------------------------------------------------------
(* Properties of repeated runs *)

business(df, attributes) ==
    {[c \in attributes \cap df.cols |-> df.rows[n][c]] : n \in 1..Len(df.rows)}

same_business(first, second, attributes) ==
    business(first, attributes) = business(second, attributes)

\* C9: two runs of the builders over the same unchanged raw inputs give, for
\* every natural key, the same non-key business attributes (the sales_region
\* string and the rows chosen among overlapping source files included), the
\* surrogate keys apart.
C9_SameAttributesOnRerun ==
    (/\ run = 2 /\ pc = "exit" /\ script = "transformer.py"
     /\ done_runs[1].script = "transformer.py" /\ done_runs[1].pc = "exit") =>
        /\ same_business(done_runs[1].dim_date, dim_date,
                         {"sk_date", "full_date", "year", "month", "month_name", "quarter"})
        /\ same_business(done_runs[1].dim_client, dim_client,
                         {"bk_customer_id", "company_name", "city", "country", "region"})
        /\ same_business(done_runs[1].dim_employee, dim_employee,
                         {"bk_employee_id", "Employee_name", "title", "city", "country",
                          "sales_region", "territories"})
        /\ same_business(done_runs[1].fact_sales, fact_sales,
                         {"bk_order_id", "sk_date", "quantity", "unit_price", "discount",
                          "total_amount", "delivery_status"})

-----------------------------------------------------------------------------
(* Properties of the pipeline *)

Stages == <<"extract", "transform", "load", "validate">>

\* a builder or a to_csv call of execute_transformation raised
transformation_error ==
    nload = Len(LoadPlan) /\ nsaved < Len(SavePlan) /\ pc \in {"returned", "raised"}

\* C10: run_etl_pipeline runs extract, transform, load, validate in this
\* order, each stage after the one before returned without raising; and when
\* extraction raises nothing and the transformation logic meets no error, the
\* transformation orchestrator is executed and the load and validation stages
\* are reached.
C10_PipelineReachesLoad ==
    script = "elt.py" =>
        /\ log = SubSeq(Stages, 1, Len(log))
        /\ (pc \in Terminal /\ Len(log) >= 2 /\ ~transformation_error) =>
              /\ nload = Len(LoadPlan)
              /\ nsaved = Len(SavePlan)
              /\ Len(log) >= 3
        /\ pc = "exit" => log = Stages

-----------------------------------------------------------------------------
(* Properties of the price column *)

\* the order header of a joined line
header_of(l) ==
    headers[CHOOSE n \in 1..Len(headers) : headers[n]["orderid"] = l["orderid"]]

\* the price the claim gives a joined line: the line's own when the lines
\* carry one, else the header's
price_of_line(l) ==
    IF "unitprice" \in frames["details"].cols THEN l["unitprice"]
    ELSE header_of(l)["unitprice"]

\* execute_transformation is past create_sales_fact, or was left in it
past_fact == /\ script = "transformer.py"
             /\ nload = Len(LoadPlan)
             /\ pc \in {"save", "exit", "raised"}

\* C11: after the join of order lines and headers: with a unit price on both
\* sides the line's price is unit_price and enters total_amount; with a price
\* on one side only that one is used; with none the builder returns an empty
\* table and does not raise.
C11_PriceColumn ==
    (/\ past_fact
     /\ ~empty(frames["orders"]) /\ ~empty(frames["details"])
     /\ "orderid" \in frames["orders"].cols \cap frames["details"].cols) =>
        IF "unitprice" \in frames["orders"].cols \cup frames["details"].cols
        THEN pc # "raised" =>
               /\ Len(fact_sales.rows) = Len(joined_lines)
               /\ \A k \in 1..Len(joined_lines) :
                     LET l == joined_lines[k]
                         f == fact_sales.rows[k]
                     IN  /\ f["bk_order_id"] = l["orderid"]
                         /\ f["unit_price"] = price_of_line(l)
                         /\ f["total_amount"]
                              = total_amount(price_of_line(l), l["quantity"], l["discount"])
        ELSE pc # "raised" /\ fact_sales = EmptyDataFrame

\* both sides carry a price, 10 on the line and 5 on the header of order 1:
\* the fact row has the line's
C11_Witness ==
    /\ fact_built
    /\ "unitprice" \in frames["orders"].cols \cap frames["details"].cols
    /\ Len(joined_lines) = 2
    /\ joined_lines[1]["unitprice"] = <<"10">>
    /\ header_of(joined_lines[1])["unitprice"] = <<"5">>
    /\ fact_sales.rows[1]["unit_price"] = <<"10">>
    /\ fact_sales.rows[1]["total_amount"] = <<2000>>

-----------------------------------------------------------------------------
(* Properties of the fact table over an empty dimension *)

\* the fact table has the column, null in every row
null_key(sk) ==
    /\ sk \in fact_sales.cols
    /\ \A m \in 1..Len(fact_sales.rows) : fact_sales.rows[m][sk] = NaN

\* one fact row for each joined order line, in the lines' order
row_per_joined_line ==
    /\ Len(fact_sales.rows) = Len(joined_lines)
    /\ \A k \in 1..Len(joined_lines) :
          kept_of_fact(fact_sales.rows[k]) = kept_of_line(joined_lines[k])

\* C12: when the Customers (or Employees) source is unavailable, so that
\* DimClient (or DimEmployee) is empty, while Orders and OrderDetails hold
\* rows, create_sales_fact does not fail and emits one fact row for each joined
\* order line, each with a null sk_client (or sk_employee) in the output.
C12_EmptyDimensionGivesNullKeys ==
    (/\ past_fact
     /\ ~empty(frames["orders"]) /\ ~empty(frames["details"])
     /\ empty(dim_client) \/ empty(dim_employee)) =>
        /\ pc # "raised"
        /\ row_per_joined_line
        /\ empty(dim_client) => null_key("sk_client")
        /\ empty(dim_employee) => null_key("sk_employee")

-----------------------------------------------------------------------------
(* Properties of the transformation's steps *)

Builders == <<"dim_date", "dim_client", "dim_employee", "fact">>

\* how many steps of execute_transformation are done: the seven loads, the
\* four builders, the four writes
position ==
    CASE pc = "load" -> nload
      [] pc = "save" -> Len(LoadPlan) + Len(Builders) + nsaved
      [] pc = "exit" -> Len(LoadPlan) + Len(Builders) + Len(SavePlan)
      [] OTHER -> Len(LoadPlan)
                  + (CHOOSE n \in 1..Len(Builders) : Builders[n] = pc) - 1

\* the table the next write saves
next_saved == <<dim_date, dim_client, dim_employee, fact_sales>>[nsaved + 1]

\* C13: execute_transformation loads the seven tables, builds DimDate,
\* DimClient, DimEmployee and FactSales, then writes cleaned_date,
\* cleaned_clients, cleaned_employees, cleaned_sales, strictly in this order;
\* an exception in a step propagates uncaught and no later step runs, so a run
\* in which a builder fails writes no staging file, and a failed write leaves
\* the files written before it in place.
C13_StepsInOrder ==
    [][(script = "transformer.py" /\ run' = run) =>
          /\ pc \notin Terminal
          /\ pc' \notin {"returned", "exit"} \/ (pc' = "exit" /\ pc = "save")
          /\ IF pc' = "raised"
             THEN /\ pc \in Range(Builders) \cup {"save"}
                  /\ staging' = staging
                  /\ nsaved' = nsaved
                  /\ pc \in Range(Builders) => nsaved = 0
             ELSE /\ position' = position + 1
                  /\ IF pc = "save"
                     THEN /\ DOMAIN staging' = DOMAIN staging \cup {SavePlan[nsaved + 1]}
                          /\ staging'[SavePlan[nsaved + 1]] = next_saved
                          /\ \A n \in DOMAIN staging \ {SavePlan[nsaved + 1]} :
                                staging'[n] = staging[n]
                     ELSE staging' = staging /\ nsaved' = 0 /\ nsaved = 0]_vars

\* the third write failed: the run has ended with the first two files in place
C13_Witness ==
    /\ script = "transformer.py" /\ run = 1
    /\ pc = "raised"
    /\ nsaved = 2
    /\ DOMAIN staging = {"cleaned_date", "cleaned_clients"}
    /\ staging["cleaned_date"] = dim_date /\ ~empty(dim_date)
    /\ staging["cleaned_clients"] = dim_client /\ ~empty(dim_client)
    /\ ~empty(fact_sales)

-----------------------------------------------------------------------------
(* Properties of the date foreign key *)

date_keys == {dim_date.rows[n]["sk_date"] : n \in 1..Len(dim_date.rows)}

\* C14: after execute_transformation has built DimDate and FactSales from the
\* same loaded Orders table, every FactSales row whose sk_date is not the
\* sentinel 19000101 has the sk_date of some DimDate row.
C14_DateKeyNeverDangles ==
    fact_built =>
        \A m \in 1..Len(fact_sales.rows) :
            fact_sales.rows[m]["sk_date"] # <<SentinelDate>>
                => fact_sales.rows[m]["sk_date"] \in date_keys

\* fact rows of two days and of an unparseable date, over a DimDate that holds
\* the two days and nothing for the sentinel
C14_Witness ==
    /\ fact_built
    /\ \E m \in 1..Len(fact_sales.rows) : fact_sales.rows[m]["sk_date"] = <<20130704>>
    /\ \E m \in 1..Len(fact_sales.rows) : fact_sales.rows[m]["sk_date"] = <<20130705>>
    /\ \E m \in 1..Len(fact_sales.rows) : fact_sales.rows[m]["sk_date"] = <<SentinelDate>>
    /\ date_keys = {<<20130704>>, <<20130705>>}

====
